---------------------------- MODULE Spec2Model ----------------------------
(***************************************************************************)
(* A model of query.py: the loader, the reference extractor, the rank      *)
(* resolver and the report driver.                                         *)
(*                                                                         *)
(* Python strings are sequences of one-character strings, so that slicing  *)
(* (ref[:9]) and equality are computed, not assumed.  A dict is the        *)
(* sequence of its items in insertion order, each key occurring once.      *)
(***************************************************************************)
EXTENDS Integers, Sequences, FiniteSets, TLC

VARIABLES pc,          \* where the run is
          args_top,    \* the value of --top as argparse delivers it
          dir,         \* the files of DATA_DIR, in the order glob yields them
          db_present,  \* whether DATA_DIR / DB_FILE exists
          file_list,   \* load_data: what the glob generator has yet to yield
          xml_files,   \* the list of document texts
          db,          \* the list of person records
          top_n,       \* main's top_n, get_top_persons' n
          persons,     \* the reference counts, a dict
          top_names,   \* the resolver's result
          error,       \* the exception that ended the run, or NoError
          out_header,  \* the header lines printed, each by the number it states
          out_lines    \* the entry lines printed, each a (name, id, count)

vars == <<pc, args_top, dir, db_present, file_list, xml_files, db, top_n,
          persons, top_names, error, out_header, out_lines>>

-----------------------------------------------------------------------------
(* Program constants *)

TOP == 10

PREFIX_LEN == 9

FILE_COUNT == 18

(* Bounds of the model *)

MaxElems == 2

MaxDocs == 2

MaxDb == 3

MaxRefs == 2

MaxCount == 2

MaxN == 3

MaxFiles == 3

-----------------------------------------------------------------------------
(* Values *)

NoError == "none"

Min(a, b) == IF a <= b THEN a ELSE b

Max(a, b) == IF a >= b THEN a ELSE b

SeqsUpTo(S, n) == UNION {[1..k -> S] : k \in 0..n}

sEmpty == <<>>

sRudolf == <<"R", "u", "d", "o", "l", "f">>

sRaw1 == <<"P", "0", "0", "0", "1", "2", "3", "4", "5", "6">>

sRaw2 == <<"P", "0", "0", "0", "1", "2", "3", "4", "5", "x">>

sIdA == <<"P", "0", "0", "0", "1", "2", "3", "4", "5">>

sIdB == <<"P", "0", "0", "0", "9", "9", "9", "9", "9">>

RawRefs == {sEmpty, sRudolf, sRaw1, sRaw2}

Tags == {"tei:persName", "tei:persname"}

\* An element below the root: its tag, its depth, and its ref attribute
\* (has_ref tells whether the attribute is there at all).
Elems ==
    {[tag |-> t, depth |-> d, has_ref |-> TRUE, ref |-> r] :
        t \in Tags, d \in 1..2, r \in RawRefs}
    \cup {[tag |-> t, depth |-> d, has_ref |-> FALSE, ref |-> sEmpty] :
        t \in Tags, d \in 1..2}

\* A document text: well-formed XML with its elements in document order, or
\* text that is not XML.
Malformed == [wellformed |-> FALSE, elems |-> <<>>]

DocsOver(E, n) == {[wellformed |-> TRUE, elems |-> es] : es \in SeqsUpTo(E, n)}
                  \cup {Malformed}

Docs == DocsOver(Elems, MaxElems)

-----------------------------------------------------------------------------
(* dict *)

DictKeys(d) == {d[i].k : i \in 1..Len(d)}

DictGet(d, key) == LET i == CHOOSE j \in 1..Len(d) : d[j].k = key IN d[i].v

\* d[key] = value: an existing key keeps its place, a new one goes last.
DictSet(d, key, value) ==
    IF key \in DictKeys(d)
    THEN [i \in 1..Len(d) |-> IF d[i].k = key THEN [k |-> key, v |-> value] ELSE d[i]]
    ELSE Append(d, [k |-> key, v |-> value])

-----------------------------------------------------------------------------
(* extract_referenced_persons *)

\* s[:n] for n >= 0
Prefix(s, n) == SubSeq(s, 1, Min(n, Len(s)))

\* root.findall(".//tei:persname[@ref]", ns): every element below the root,
\* at any depth, with that tag and with a ref attribute, in document order.
IsMatch(e) == e.tag = "tei:persname" /\ e.has_ref

FindAll(doc) == SelectSeq(doc.elems, IsMatch)

\* The body of the inner loop, for one matched element.
CountPerson(d, person) == DictSet(d, Prefix(person.ref, PREFIX_LEN), 1)

RECURSIVE ExtractMatches(_, _)
ExtractMatches(matches, d) ==
    IF matches = <<>> THEN d
    ELSE ExtractMatches(Tail(matches), CountPerson(d, Head(matches)))

\* The outer loop: ET.fromstring raises ParseError on text that is not XML.
RECURSIVE ExtractFiles(_, _)
ExtractFiles(files, d) ==
    IF files = <<>> THEN [err |-> NoError, value |-> d]
    ELSE IF ~Head(files).wellformed THEN [err |-> "ParseError", value |-> <<>>]
    ELSE ExtractFiles(Tail(files), ExtractMatches(FindAll(Head(files)), d))

extract_referenced_persons(files) == ExtractFiles(files, <<>>)

-----------------------------------------------------------------------------
(* The extractor applied to every list of documents within the bounds *)

InitExtract ==
    /\ pc = "extract"
    /\ xml_files \in SeqsUpTo(Docs, MaxDocs)
    /\ args_top = 0 /\ dir = <<>> /\ db_present = TRUE /\ file_list = <<>>
    /\ db = <<>> /\ top_n = 0 /\ persons = <<>> /\ top_names = <<>>
    /\ error = NoError /\ out_header = <<>> /\ out_lines = <<>>

ExtractCall ==
    /\ pc = "extract"
    /\ LET r == extract_referenced_persons(xml_files)
       IN /\ persons' = r.value
          /\ error' = r.err
          /\ pc' = IF r.err = NoError THEN "extracted" ELSE "failed"
    /\ UNCHANGED <<args_top, dir, db_present, file_list, xml_files, db, top_n,
                   top_names, out_header, out_lines>>

NextExtract == ExtractCall

SpecExtract == InitExtract /\ [][NextExtract]_vars

\* Every element of every document, and those the extractor matched.
RECURSIVE Flatten(_)
Flatten(files) ==
    IF files = <<>> THEN <<>> ELSE Head(files).elems \o Flatten(Tail(files))

RECURSIVE FlattenMatches(_)
FlattenMatches(files) ==
    IF files = <<>> THEN <<>> ELSE FindAll(Head(files)) \o FlattenMatches(Tail(files))

CanonicalIDs == {Prefix(r, PREFIX_LEN) : r \in RawRefs}

\* How often a counted reference truncates to c.
Occurrences(files, c) ==
    Cardinality({i \in 1..Len(FlattenMatches(files)) :
                    Prefix(FlattenMatches(files)[i].ref, PREFIX_LEN) = c})

\* C1: the returned mapping has a key c exactly when a counted reference
\* truncates to c, and the value under c is the number of those occurrences
\* over all documents (accumulated, never reset or overwritten).
C1_CountsAccumulate ==
    pc = "extracted" =>
        /\ DictKeys(persons) = {c \in CanonicalIDs : Occurrences(xml_files, c) > 0}
        /\ \A c \in DictKeys(persons) : DictGet(persons, c) = Occurrences(xml_files, c)

\* The person references of the documents: tei:persName elements with a
\* non-empty ref, at any depth.
IsPersonReference(e) == e.tag = "tei:persName" /\ e.has_ref /\ e.ref # sEmpty

\* C10: in parsed documents the keys of the mapping are the truncated refs of
\* the tei:persName elements (that exact tag, any depth) with a non-empty
\* ref; an element without ref or with an empty ref adds no key, the empty
\* key included, and raises no error.
C10_CountedElements ==
    /\ (pc = "failed" => \E i \in 1..Len(xml_files) : ~xml_files[i].wellformed)
    /\ (pc = "extracted" =>
          DictKeys(persons) =
             {Prefix(Flatten(xml_files)[i].ref, PREFIX_LEN) :
                 i \in {j \in 1..Len(Flatten(xml_files)) :
                           IsPersonReference(Flatten(xml_files)[j])}})

-----------------------------------------------------------------------------
(* get_top_persons *)

\* The records of a dataset all carry one identifier key: "ID", as the module
\* docstring describes the dump, or "id", as get_top_persons reads it.
Names == {sIdA, sRudolf}

Ids == {sIdA, sIdB}

IdKeys == {"ID", "id"}

Records(key) == IF key = "ID" THEN [name : Names, ID : Ids]
                ELSE [name : Names, id : Ids]

Datasets == UNION {SeqsUpTo(Records(key), MaxDb) : key \in IdKeys}

\* The inner loop for one item of references: person["id"] raises KeyError
\* on a record without that key.
RECURSIVE JoinPerson(_, _, _, _)
JoinPerson(person_id, count, people, result) ==
    IF people = <<>> THEN [err |-> NoError, value |-> result]
    ELSE LET person == Head(people) IN
         IF person.name = person_id
         THEN IF "id" \in DOMAIN person
              THEN JoinPerson(person_id, count, Tail(people),
                              Append(result, <<person.name, person.id, count>>))
              ELSE [err |-> "KeyError", value |-> <<>>]
         ELSE JoinPerson(person_id, count, Tail(people), result)

\* The outer loop, over references.items() in insertion order.
RECURSIVE JoinAll(_, _, _)
JoinAll(items, people, result) ==
    IF items = <<>> THEN [err |-> NoError, value |-> result]
    ELSE LET r == JoinPerson(Head(items).k, Head(items).v, people, result) IN
         IF r.err # NoError THEN r
         ELSE JoinAll(Tail(items), people, r.value)

\* One step of a stable sort by count, descending: x goes behind every entry
\* whose count is at least its own.
RECURSIVE InsertByCount(_, _)
InsertByCount(sorted, x) ==
    IF sorted = <<>> THEN <<x>>
    ELSE IF Head(sorted)[3] >= x[3]
         THEN <<Head(sorted)>> \o InsertByCount(Tail(sorted), x)
         ELSE <<x>> \o sorted

RECURSIVE SortFrom(_, _)
SortFrom(sorted, result) ==
    IF result = <<>> THEN sorted
    ELSE SortFrom(InsertByCount(sorted, Head(result)), Tail(result))

Reverse(s) == [i \in 1..Len(s) |-> s[Len(s) + 1 - i]]

\* sorted(result, key=lambda x: x[2])[::-1]: descending too, with the entries
\* of equal count in reverse order.
SortedThenReversed(result) == SortFrom(<<>>, Reverse(result))

\* sorted(result, key=lambda x: x[2], reverse=True): Python's sort is stable,
\* and stays so under reverse=True.
SortedByCount(result) == SortFrom(<<>>, result)

\* s[:n], n of either sign
Slice(s, n) == IF n >= 0 THEN SubSeq(s, 1, Min(n, Len(s)))
               ELSE SubSeq(s, 1, Max(Len(s) + n, 0))

get_top_persons(references, people, n) ==
    LET r == JoinAll(references, people, <<>>) IN
    IF r.err # NoError THEN r
    ELSE [err |-> NoError, value |-> Slice(SortedByCount(r.value), n)]

-----------------------------------------------------------------------------
(* The resolver applied to every mapping, dataset and n within the bounds *)

RefKeys == {sIdA, sIdB, sRudolf}

\* The dicts with at most MaxRefs keys and counts in 1..MaxCount.
ReferenceCounts ==
    {d \in SeqsUpTo([k : RefKeys, v : 1..MaxCount], MaxRefs) :
        \A i, j \in 1..Len(d) : d[i].k = d[j].k => i = j}

InitTop ==
    /\ pc = "top"
    /\ persons \in ReferenceCounts
    /\ db \in Datasets
    /\ top_n \in -1..MaxN
    /\ args_top = 0 /\ dir = <<>> /\ db_present = TRUE /\ file_list = <<>>
    /\ xml_files = <<>> /\ top_names = <<>>
    /\ error = NoError /\ out_header = <<>> /\ out_lines = <<>>

TopCall ==
    /\ pc = "top"
    /\ LET r == get_top_persons(persons, db, top_n)
       IN /\ top_names' = r.value
          /\ error' = r.err
          /\ pc' = IF r.err = NoError THEN "ranked" ELSE "failed"
    /\ UNCHANGED <<args_top, dir, db_present, file_list, xml_files, db, top_n,
                   persons, out_header, out_lines>>

NextTop == TopCall

SpecTop == InitTop /\ [][NextTop]_vars

\* The identifier of a record, under whichever key it is stored.
RecId(person) == IF "ID" \in DOMAIN person THEN person.ID ELSE person.id

UniqueIds(people) ==
    \A i, j \in 1..Len(people) : RecId(people[i]) = RecId(people[j]) => i = j

\* The keys of the mapping that are the identifier of some record.
Resolvable(references, people) ==
    {c \in DictKeys(references) : \E i \in 1..Len(people) : RecId(people[i]) = c}

\* C2: for a dataset with unique identifiers and n >= 0 the call returns
\* exactly min(n, R) entries, R the number of resolvable keys.
C2_ReturnsMinNR ==
    (pc = "ranked" /\ top_n >= 0 /\ UniqueIds(db)) =>
        Len(top_names) = Min(top_n, Cardinality(Resolvable(persons, db)))

\* C3: the join is on the identifier: every returned (name, id, count) has id
\* a key of the mapping with that count and a record with that identifier
\* and that name; a key no record has as identifier yields no entry,
\* whatever the names are.
C3_JoinOnIdentifier ==
    pc = "ranked" =>
        \A i \in 1..Len(top_names) :
           /\ top_names[i][2] \in DictKeys(persons)
           /\ top_names[i][3] = DictGet(persons, top_names[i][2])
           /\ \E j \in 1..Len(db) :
                 RecId(db[j]) = top_names[i][2] /\ db[j].name = top_names[i][1]

\* The join's rows with a given count, in the order the join produced them.
RowsWithCount(c) ==
    SelectSeq(JoinAll(persons, db, <<>>).value, LAMBDA x : x[3] = c)

RECURSIVE RowsFrom(_)
RowsFrom(c) == IF c = 0 THEN <<>> ELSE RowsWithCount(c) \o RowsFrom(c - 1)

\* C4: the returned sequence is non-increasing by count, and entries of
\* equal count keep the order in which the join produced them (the items of
\* the mapping in insertion order, the records in dataset order), so the
\* result is a function of the mapping, the dataset and n.
C4_SortedAndTiesInJoinOrder ==
    pc = "ranked" =>
        /\ \A i \in 1..(Len(top_names) - 1) : top_names[i][3] >= top_names[i + 1][3]
        /\ top_names = Slice(RowsFrom(MaxCount), top_n)

C4_Witness ==
    /\ pc = "ranked"
    /\ Len(top_names) = 3
    /\ top_names[1][3] > top_names[2][3]
    /\ top_names[2][3] = top_names[3][3]
    /\ top_names[2] # top_names[3]
    /\ JoinAll(persons, db, <<>>).value # top_names

-----------------------------------------------------------------------------
(* The program: the __main__ block, main and load_data *)

\* A file of DATA_DIR: whether its name matches "*-1.xml", and its text.
FileTexts ==
    {[wellformed |-> TRUE, elems |-> <<>>],
     [wellformed |-> TRUE,
      elems |-> <<[tag |-> "tei:persName", depth |-> 1, has_ref |-> TRUE,
                   ref |-> sRaw1]>>],
     Malformed}

DirEntries == [matches : BOOLEAN, text : FileTexts]

\* What argparse delivers for --top: an integer, TOP when the flag is unset.
ArgsTop == (-1..MaxN) \cup {TOP}

Init ==
    /\ pc = "start"
    /\ args_top \in ArgsTop
    /\ dir \in SeqsUpTo(DirEntries, MaxFiles)
    /\ db_present \in BOOLEAN
    /\ file_list = <<>> /\ xml_files = <<>> /\ db = <<>> /\ top_n = 0
    /\ persons = <<>> /\ top_names = <<>>
    /\ error = NoError /\ out_header = <<>> /\ out_lines = <<>>

\* main(args.top if args.top else TOP)
MainBlock ==
    /\ pc = "start"
    /\ top_n' = IF args_top # 0 THEN args_top ELSE TOP
    /\ pc' = "load_data"
    /\ UNCHANGED <<args_top, dir, db_present, file_list, xml_files, db,
                   persons, top_names, error, out_header, out_lines>>

RECURSIVE Glob(_)
Glob(files) ==
    IF files = <<>> THEN <<>>
    ELSE IF Head(files).matches THEN <<Head(files).text>> \o Glob(Tail(files))
    ELSE Glob(Tail(files))

\* file_list = data_dir.glob("*-1.xml"); xml_files = []
LoadGlob ==
    /\ pc = "load_data"
    /\ file_list' = Glob(dir)
    /\ xml_files' = <<>>
    /\ pc' = "load_loop"
    /\ UNCHANGED <<args_top, dir, db_present, db, top_n, persons, top_names,
                   error, out_header, out_lines>>

\* One turn of "while True": next(file_list) yields the next file, whose text
\* is appended.
LoadAppend ==
    /\ pc = "load_loop"
    /\ file_list # <<>>
    /\ xml_files' = Append(xml_files, Head(file_list))
    /\ file_list' = Tail(file_list)
    /\ UNCHANGED <<pc, args_top, dir, db_present, db, top_n, persons,
                   top_names, error, out_header, out_lines>>

\* The turn after the last file: next(file_list) raises StopIteration, which
\* nothing in load_data, main or the __main__ block catches.  The loop has no
\* other way out, so the return statement after it is never reached.
LoadStopIteration ==
    /\ pc = "load_loop"
    /\ file_list = <<>>
    /\ error' = "StopIteration"
    /\ pc' = "failed"
    /\ UNCHANGED <<args_top, dir, db_present, file_list, xml_files, db, top_n,
                   persons, top_names, out_header, out_lines>>

Next == MainBlock \/ LoadGlob \/ LoadAppend \/ LoadStopIteration

Spec == Init /\ [][Next]_vars

\* C5: with a valid dataset file load_data ends normally, by exhausting the
\* files: it does not end in an end-of-iteration error, and once it has
\* returned xml_files holds every matching file's text exactly once.
C5_LoadTerminatesNormally ==
    db_present =>
        /\ error # "StopIteration"
        /\ (pc = "loaded" => xml_files = Glob(dir))

\* C8: with the dataset file absent the run fails with NotFoundError, not
\* with another exception raised earlier in the loader, and prints nothing.
C8_MissingDatasetNotFound ==
    ~db_present =>
        /\ error \in {NoError, "NotFoundError", "FileNotFoundError"}
        /\ pc # "done"
        /\ out_header = <<>> /\ out_lines = <<>>

\* C9: when the supplied --top is unset or non-positive, main, and through it
\* the resolver, gets the default TOP: no value below 1 is passed on.
C9_FallbackToDefault ==
    (pc # "start" /\ args_top <= 0) => top_n = TOP

-----------------------------------------------------------------------------
(* main from the return of load_data on, for every value the loader's       *)
(* signature lets it return and every top_n main can be called with         *)

ReportElems == {e \in Elems : e.depth = 1 /\ e.has_ref /\ e.ref \in {sRudolf, sRaw1}}

ReportDocs == DocsOver(ReportElems, MaxElems)

NoReferences == [wellformed |-> TRUE, elems |-> <<>>]

\* A list of n documents: d, then documents without person references.
Padded(d, n) == [i \in 1..n |-> IF i = 1 THEN d ELSE NoReferences]

ReportFiles == {<<>>} \cup {Padded(d, n) : d \in ReportDocs, n \in {1, FILE_COUNT}}

InitReport ==
    /\ pc = "loaded"
    /\ xml_files \in ReportFiles
    /\ db \in Datasets
    /\ top_n \in -1..MaxN
    /\ args_top = top_n
    /\ dir = <<>> /\ db_present = TRUE /\ file_list = <<>>
    /\ persons = <<>> /\ top_names = <<>>
    /\ error = NoError /\ out_header = <<>> /\ out_lines = <<>>

Raise(exception) ==
    /\ error' = exception
    /\ pc' = "failed"

\* assert len(xml_files) == 18
MainAssertFiles ==
    /\ pc = "loaded"
    /\ IF Len(xml_files) = FILE_COUNT
       THEN pc' = "extract_call" /\ error' = error
       ELSE Raise("AssertionError")
    /\ UNCHANGED <<args_top, dir, db_present, file_list, xml_files, db, top_n,
                   persons, top_names, out_header, out_lines>>

\* persons = extract_referenced_persons(xml_files)
MainExtract ==
    /\ pc = "extract_call"
    /\ LET r == extract_referenced_persons(xml_files)
       IN /\ persons' = r.value
          /\ IF r.err = NoError
             THEN pc' = "top_call" /\ error' = error
             ELSE Raise(r.err)
    /\ UNCHANGED <<args_top, dir, db_present, file_list, xml_files, db, top_n,
                   top_names, out_header, out_lines>>

\* top_names = get_top_persons(persons, db_dump, top_n)
MainGetTop ==
    /\ pc = "top_call"
    /\ LET r == get_top_persons(persons, db, top_n)
       IN /\ top_names' = r.value
          /\ IF r.err = NoError
             THEN pc' = "assert_len" /\ error' = error
             ELSE Raise(r.err)
    /\ UNCHANGED <<args_top, dir, db_present, file_list, xml_files, db, top_n,
                   persons, out_header, out_lines>>

\* assert len(top_names) == top_n
MainAssertLen ==
    /\ pc = "assert_len"
    /\ IF Len(top_names) = top_n
       THEN pc' = "assert_first" /\ error' = error
       ELSE Raise("AssertionError")
    /\ UNCHANGED <<args_top, dir, db_present, file_list, xml_files, db, top_n,
                   persons, top_names, out_header, out_lines>>

\* assert top_names[0][0] == ("Rudolf")
MainAssertFirst ==
    /\ pc = "assert_first"
    /\ IF top_names = <<>> THEN Raise("IndexError")
       ELSE IF top_names[1][1] = sRudolf
            THEN pc' = "print" /\ error' = error
            ELSE Raise("AssertionError")
    /\ UNCHANGED <<args_top, dir, db_present, file_list, xml_files, db, top_n,
                   persons, top_names, out_header, out_lines>>

\* The header, which formats TOP, and one line per entry of top_names.
MainPrint ==
    /\ pc = "print"
    /\ out_header' = <<TOP>>
    /\ out_lines' = top_names
    /\ pc' = "done"
    /\ UNCHANGED <<args_top, dir, db_present, file_list, xml_files, db, top_n,
                   persons, top_names, error>>

NextReport ==
    \/ MainAssertFiles \/ MainExtract \/ MainGetTop
    \/ MainAssertLen \/ MainAssertFirst \/ MainPrint

SpecReport == InitReport /\ [][NextReport]_vars

\* C6: a completed run of main(N), N positive, states N in its header and
\* emits at most N entry lines.
C6_HeaderStatesRequestedN ==
    (pc = "done" /\ top_n > 0) =>
        /\ out_header = <<top_n>>
        /\ Len(out_lines) <= top_n

\* The distinct resolvable persons of the documents: the canonical ids of
\* their person references that are the identifier of a record.
ResolvablePersons ==
    {c \in {Prefix(Flatten(xml_files)[i].ref, PREFIX_LEN) :
               i \in {j \in 1..Len(Flatten(xml_files)) :
                         IsPersonReference(Flatten(xml_files)[j])}} :
        \E i \in 1..Len(db) : RecId(db[i]) = c}

\* C7: when N exceeds the number R of distinct resolvable persons, the run
\* (over the expected number of well-formed documents and a dataset whose
\* records carry the key the resolver reads) ends without error, no
\* assertion included, and has emitted exactly R entry lines.
C7_FewerThanNIsNoError ==
    (/\ pc \in {"done", "failed"}
     /\ Len(xml_files) = FILE_COUNT
     /\ \A i \in 1..Len(xml_files) : xml_files[i].wellformed
     /\ \A i \in 1..Len(db) : "id" \in DOMAIN db[i]
     /\ top_n > Cardinality(ResolvablePersons)) =>
        /\ error = NoError
        /\ Len(out_lines) = Cardinality(ResolvablePersons)

=============================================================================
